---- MODULE Spec2Model ----
(***************************************************************************)
(* Verification model of the kmemleak toolkit.                             *)
(*                                                                         *)
(*   SpecStore  - SingleFileJSlab: collection_loop and its snapshot list   *)
(*   SpecStoreLive - the same, with the program's own steps weakly fair    *)
(*   SpecFrag, SpecPearson, SpecAnalyze - calculate_fragmentation_index,   *)
(*                pearson_correlation and analyze_correlation of           *)
(*                SingleFileJSlab, each applied to drawn inputs            *)
(*   Spec       - SlabGrowthDetector: the main() sampling loop, the vmstat *)
(*                list and the trend tracking it drives                    *)
(*   SpecSeries - one MetricSeries driven by a sequence of observations    *)
(*   SpecRank   - the top-N ranking applied to drawn trend results         *)
(*   SpecVmstat - the vmstat list under a sequence of                      *)
(*                list_update_or_add_vmstat calls                          *)
(*   SpecSlab   - JSlabLeakDetector: init_slab_list and                    *)
(*                init_slab_list_noptr, in both revisions of slablist.h    *)
(*                                                                         *)
(* double values are modelled as exact rationals <<numerator, denominator>>*)
(* with a positive denominator.                                            *)
(***************************************************************************)
EXTENDS Integers, Naturals, Sequences, FiniteSets, TLC

VARIABLES
    \* ---- SingleFileJSlab (collection_loop) ----
    running,        \* volatile sig_atomic_t running
    pcLoop,         \* position of collection_loop
    heap,           \* the calloc'ed snapshot_t nodes, by address 1..Len(heap)
    head,           \* list.head (0 is NULL)
    tail,           \* list.tail (0 is NULL)
    count,          \* list.count
    duration,       \* the duration printed by generate_report, <<>> before it
    collected,      \* what the collectors obtained for each snapshot, in order
    alloc_failed,   \* whether "Memory allocation failed" was printed
    reports,        \* the reports generate_report printed
    csv,            \* the files export_csv wrote, each a sequence of rows
    freed,          \* the addresses passed to free(), in order
    \* ---- one MetricSeries ----
    sAlpha,         \* the smoothing factor of the run
    series,         \* the metric's state
    obs,            \* the raw values observed so far, oldest first
    results,        \* the TrendResult of each observation
    tiers,          \* the tier classify gave each observation
    \* ---- SlabGrowthDetector (main) ----
    pcMain,         \* the call main() makes next
    inLoop,         \* whether main() has entered its while (1) loop
    cycle,          \* sampling cycles started
    vmstat_list,    \* vmstat_head and the malloc'ed struct vmstat nodes
    observed,       \* the metrics the parse calls of this cycle obtained
    trend,          \* the MetricSeries of every metric name
    pressure,       \* whether this cycle raised the system-pressure alert
    alerts,         \* the tier shown for each ranked metric
    topN,           \* the ranking shown by show_topN_slabs
    summary,        \* the line printed by show_vmstat_summary
    \* ---- the ranking on its own ----
    rankInput,      \* trend results by metric name
    rankN,          \* the n asked for
    ranking,        \* the result of top_n, <<>> before the call
    \* ---- the SingleFileJSlab calculations on their own ----
    fragIn,         \* <<order2_free_pages, order3_free_pages>> of the snapshot
    fragOut,        \* the fragmentation index returned, <<>> before the call
    px,             \* the array x given to pearson_correlation
    py,             \* the array y given to pearson_correlation
    pearsonOut,     \* the correlation returned, <<>> before the call
    aHeap,          \* the snapshots of the list given to analyze_correlation
    aHead,          \* its head
    aCount,         \* its count
    analysis,       \* what analyze_correlation returned and read, <<>> before
    \* ---- the vmstat list on its own ----
    supplied,       \* the <<name, value>> of every line parsed so far, in order
    \* ---- JSlabLeakDetector (slablist.h) ----
    slabRev,        \* which of the two revisions of slablist.h is built
    slabMem,        \* the malloc'ed blocks, by address 1..Len(slabMem)
    headslabinfo,   \* list *headslabinfo (0 is NULL)
    headvmstat,     \* list *headvmstat (0 is NULL)
    slabCalls,      \* what each call so far did
    slabFault       \* whether a null or unallocated pointer was dereferenced

storeVars == <<running, pcLoop, heap, head, tail, count, duration, collected,
               alloc_failed, reports, csv, freed>>

seriesVars == <<sAlpha, series, obs, results, tiers>>

mainVars == <<pcMain, inLoop, cycle, vmstat_list, observed, trend, pressure, alerts,
              topN, summary>>

rankVars == <<rankInput, rankN, ranking>>

fragVars == <<fragIn, fragOut>>

pearsonVars == <<px, py, pearsonOut>>

analyzeVars == <<aHeap, aHead, aCount, analysis>>

calcVars == <<fragVars, pearsonVars, analyzeVars>>

slabVars == <<slabRev, slabMem, headslabinfo, headvmstat, slabCalls, slabFault>>

vars == <<storeVars, seriesVars, mainVars, rankVars, calcVars, supplied, slabVars>>

notStore == <<seriesVars, mainVars, rankVars, calcVars, supplied, slabVars>>

notSeries == <<storeVars, mainVars, rankVars, calcVars, supplied, slabVars>>

notMain == <<storeVars, seriesVars, rankVars, calcVars, supplied, slabVars>>

notRank == <<storeVars, seriesVars, mainVars, calcVars, supplied, slabVars>>

notCalc == <<storeVars, seriesVars, mainVars, rankVars, supplied, slabVars>>

notSlab == <<storeVars, seriesVars, mainVars, rankVars, calcVars, supplied>>

----------------------------------------------------------------------------
(* Bounds of the model *)

\* snapshots collected in one run of collection_loop
MaxSnapshots == 3

\* width, in bits, the model gives uint64_t and uint32_t (scaled down from 64 and 32)
WordBits == 4

WordMod == 2 ^ WordBits

\* clock readings time(NULL) can return; the wall clock can be stepped back
Times == {1, 2}

----------------------------------------------------------------------------
(* double arithmetic, as exact rationals *)

Rat(n, d) == <<n, d>>

RatZero == Rat(0, 1)

RatOne == Rat(1, 1)

RatLess(a, b) == a[1] * b[2] < b[1] * a[2]

RatLeq(a, b) == a[1] * b[2] <= b[1] * a[2]

RatEq(a, b) == a[1] * b[2] = b[1] * a[2]

RatSub(a, b) == Rat(a[1] * b[2] - b[1] * a[2], a[2] * b[2])

RECURSIVE GCD(_, _)
GCD(a, b) == IF b = 0 THEN a ELSE GCD(b, a % b)

Abs(x) == IF x < 0 THEN -x ELSE x

\* a rational in lowest terms, so that equal doubles are equal values
Normalize(r) ==
    LET g == GCD(Abs(r[1]), r[2])
    IN  IF g = 0 THEN r ELSE Rat(r[1] \div g, r[2] \div g)

RatAdd(a, b) == Normalize(Rat(a[1] * b[2] + b[1] * a[2], a[2] * b[2]))

RatMul(a, b) == Normalize(Rat(a[1] * b[1], a[2] * b[2]))

\* a - b in lowest terms
RatDiff(a, b) == Normalize(RatSub(a, b))

Sgn(i) == IF i > 0 THEN 1 ELSE IF i < 0 THEN -1 ELSE 0

\* a / b for b # 0, in lowest terms with a positive denominator
RatQuot(a, b) ==
    IF b[1] < 0 THEN Normalize(Rat(-(a[1] * b[2]), a[2] * (-b[1])))
    ELSE Normalize(Rat(a[1] * b[2], a[2] * b[1]))

\* A double that a square root went into: sign * sqrt(square), kept exact by
\* holding the square.  class tells a finite value from the NaN and the
\* infinities an IEEE division by zero yields.
Dbl(sign, square) == [class |-> "finite", sign |-> sign, square |-> square]

DblZero == Dbl(0, RatZero)

DblOne == Dbl(1, RatOne)

DblNaN == [class |-> "nan", sign |-> 0, square |-> RatZero]

DblInf(sign) == [class |-> "inf", sign |-> sign, square |-> RatZero]

\* a rational as such a double
DblOf(r) == Dbl(Sgn(r[1]), RatMul(r, r))

\* sqrt(r), r >= 0
sqrt(r) == Dbl(Sgn(r[1]), Normalize(r))

\* a / b on doubles; the code only divides finite values
DblDivide(a, b) ==
    IF b.sign = 0
    THEN IF a.sign = 0 THEN DblNaN ELSE DblInf(a.sign)
    ELSE Dbl(a.sign * b.sign, RatQuot(a.square, b.square))

\* unsigned subtraction in a word of WordBits bits
USub(a, b) == (a - b + WordMod) % WordMod

UAdd(a, b) == (a + b) % WordMod

UMul(a, b) == (a * b) % WordMod

----------------------------------------------------------------------------
(* SingleFileJSlab *)

calculate_fragmentation_index(snap) ==
    LET weighted_sum == UMul(snap.order2_free_pages, 2) + UMul(snap.order3_free_pages, 3)
        total_free   == UAdd(snap.order2_free_pages, snap.order3_free_pages)
    IN  IF total_free = 0 THEN RatOne
        ELSE RatSub(RatOne, Rat(weighted_sum, total_free * 3))

\* data[0] + ... + data[n-1]
RECURSIVE SumOver(_, _)
SumOver(data, n) ==
    IF n = 0 THEN RatZero ELSE RatAdd(SumOver(data, n - 1), data[n])

calculate_mean(data, n) ==
    IF n = 0 THEN RatZero ELSE RatQuot(SumOver(data, n), Rat(n, 1))

calculate_stddev(data, n) ==
    IF n = 0 THEN DblZero
    ELSE LET mean     == calculate_mean(data, n)
             variance == SumOver([i \in 1..n |->
                                     RatMul(RatDiff(data[i], mean),
                                            RatDiff(data[i], mean))], n)
         IN  sqrt(RatQuot(variance, Rat(n, 1)))

\* the sum over i of (x[i] - mean_x) * (y[i] - mean_y)
deviation_products(x, mean_x, y, mean_y, n) ==
    SumOver([i \in 1..n |-> RatMul(RatDiff(x[i], mean_x), RatDiff(y[i], mean_y))], n)

pearson_without_zero_check(x, y, n) ==
    IF n < 2 THEN DblZero
    ELSE LET mean_x == calculate_mean(x, n)
             mean_y == calculate_mean(y, n)
         IN  DblDivide(DblOf(deviation_products(x, mean_x, y, mean_y, n)),
                       sqrt(RatMul(deviation_products(x, mean_x, x, mean_x, n),
                                   deviation_products(y, mean_y, y, mean_y, n))))

pearson_centred_on_first(x, y, n) ==
    IF n < 2 THEN DblZero
    ELSE LET mean_x      == calculate_mean(x, n)
             denominator ==
                 sqrt(RatMul(deviation_products(x, mean_x, x, mean_x, n),
                             deviation_products(y, mean_x, y, mean_x, n)))
         IN  IF denominator = DblZero THEN DblZero
             ELSE DblDivide(DblOf(deviation_products(x, mean_x, y, mean_x, n)),
                            denominator)

pearson_without_root(x, y, n) ==
    IF n < 2 THEN DblZero
    ELSE LET mean_x      == calculate_mean(x, n)
             mean_y      == calculate_mean(y, n)
             denominator ==
                 DblOf(RatMul(deviation_products(x, mean_x, x, mean_x, n),
                              deviation_products(y, mean_y, y, mean_y, n)))
         IN  IF denominator = DblZero THEN DblZero
             ELSE DblDivide(DblOf(deviation_products(x, mean_x, y, mean_y, n)),
                            denominator)

pearson_correlation(x, y, n) ==
    IF n < 2 THEN DblZero
    ELSE LET mean_x      == calculate_mean(x, n)
             mean_y      == calculate_mean(y, n)
             numerator   == deviation_products(x, mean_x, y, mean_y, n)
             sum_sq_x    == deviation_products(x, mean_x, x, mean_x, n)
             sum_sq_y    == deviation_products(y, mean_y, y, mean_y, n)
             denominator == sqrt(RatMul(sum_sq_x, sum_sq_y))
         IN  IF denominator = DblZero THEN DblZero
             ELSE DblDivide(DblOf(numerator), denominator)

\* correlation_result_t result = {0}
ZeroResult ==
    [ correlation     |-> DblZero,
      coefficient_var |-> DblZero,
      mean_pressure   |-> RatZero ]

\* the snapshots the loop of lines 321-327 dereferences, in order; 0 is NULL
RECURSIVE visit(_, _, _)
visit(h, from, n) ==
    IF n = 0 THEN <<>>
    ELSE IF from = 0 THEN <<0>>
    ELSE <<from>> \o visit(h, h[from].next, n - 1)

\* the three arrays analyze_correlation fills from the list
jvm_metaspace(h, from, n) ==
    LET v == visit(h, from, n)
    IN  [i \in 1..n |-> Rat(h[v[i]].metaspace_used_kb, 1)]

kernel_slabs(h, from, n) ==
    LET v == visit(h, from, n)
    IN  [i \in 1..n |->
            Rat(UAdd(h[v[i]].kmalloc_1k_active, h[v[i]].kmalloc_4k_active), 1)]

slab_scan_rates(h, from, n) ==
    LET v == visit(h, from, n)
    IN  [i \in 1..n |-> h[v[i]].slabs_scanned_per_sec]

correlation_of_unguarded_mean(h, from, n) ==
    LET mean   == calculate_mean(slab_scan_rates(h, from, n), n)
        stddev == calculate_stddev(slab_scan_rates(h, from, n), n)
    IN  [ correlation     |-> pearson_correlation(jvm_metaspace(h, from, n),
                                                  kernel_slabs(h, from, n), n),
          coefficient_var |-> DblDivide(stddev, DblOf(mean)),
          mean_pressure   |-> mean ]

\* lines 329-333
correlation_of(h, from, n) ==
    LET mean   == calculate_mean(slab_scan_rates(h, from, n), n)
        stddev == calculate_stddev(slab_scan_rates(h, from, n), n)
    IN  [ correlation     |-> pearson_correlation(jvm_metaspace(h, from, n),
                                                  kernel_slabs(h, from, n), n),
          coefficient_var |-> IF mean # RatZero THEN DblDivide(stddev, DblOf(mean))
                              ELSE DblZero,
          mean_pressure   |-> mean ]

analyze_correlation_any_length(h, from, n, allocated) ==
    IF ~allocated THEN ZeroResult ELSE correlation_of(h, from, n)

\* allocated: whether the three malloc calls all succeeded
analyze_correlation(h, from, n, allocated) ==
    IF n < 2 THEN ZeroResult
    ELSE IF ~allocated THEN ZeroResult
    ELSE correlation_of(h, from, n)

\* the snapshots analyze_correlation reads
analyze_reads(h, from, n, allocated) ==
    IF n < 2 \/ ~allocated THEN <<>> ELSE visit(h, from, n)

\* calloc(1, sizeof(snapshot_t)): every field zero
calloc_snapshot ==
    [ timestamp_sec         |-> 0,
      kmalloc_1k_active     |-> 0,
      kmalloc_4k_active     |-> 0,
      slabs_scanned         |-> 0,
      pgalloc_dma           |-> 0,
      order2_free_pages     |-> 0,
      order3_free_pages     |-> 0,
      metaspace_used_kb     |-> 0,
      slabs_scanned_per_sec |-> RatZero,
      allocation_rate_kb_per_sec |-> RatZero,
      fragmentation_index   |-> RatZero,
      next                  |-> 0 ]

\* What the four collectors obtain in one cycle.  <<>> stands for a metric
\* that was not obtained: the file could not be opened, the line was absent
\* or jcmd printed no usable line.
Reading(k1, k4, scanned, pgalloc, buddy, metaspace) ==
    [ kmalloc_1k_active |-> k1,
      kmalloc_4k_active |-> k4,
      slabs_scanned     |-> scanned,
      pgalloc_dma       |-> pgalloc,
      free_pages        |-> buddy,
      metaspace_used_kb |-> metaspace ]

Readings ==
    { Reading(<<3>>, <<1>>, <<6>>, <<7>>, <<1, 2>>, <<5>>),
      Reading(<<3>>, <<1>>, <<6>>, <<2>>, <<1, 0>>, <<>>),
      Reading(<<>>,  <<>>,  <<>>,  <<>>,  <<>>,     <<7>>) }

stores_marker_when_missing(field, obtained) ==
    IF obtained = <<>> THEN WordMod - 1 ELSE obtained[1] % WordMod

\* a parser assigns the field when it obtained the metric and leaves it alone
\* otherwise
stores(field, obtained) ==
    IF obtained = <<>> THEN field ELSE obtained[1] % WordMod

\* the snapshot after time() and the parse_* calls have filled it in
parsed_snapshot(now, reading) ==
    [ calloc_snapshot EXCEPT
        !.timestamp_sec     = now,
        !.kmalloc_1k_active = stores(@, reading.kmalloc_1k_active),
        !.kmalloc_4k_active = stores(@, reading.kmalloc_4k_active),
        !.slabs_scanned     = stores(@, reading.slabs_scanned),
        !.pgalloc_dma       = stores(@, reading.pgalloc_dma),
        !.order2_free_pages = IF reading.free_pages = <<>> THEN @
                              ELSE reading.free_pages[1],
        !.order3_free_pages = IF reading.free_pages = <<>> THEN @
                              ELSE reading.free_pages[2],
        !.metaspace_used_kb = stores(@, reading.metaspace_used_kb) ]

rates_without_dt_check(snap, last) ==
    LET dt == USub(snap.timestamp_sec, last.timestamp_sec)
        delta_scanned == USub(snap.slabs_scanned, last.slabs_scanned)
        delta_alloc == USub(snap.pgalloc_dma, last.pgalloc_dma)
        withRate ==
            [ snap EXCEPT
                !.slabs_scanned_per_sec = Rat(delta_scanned, dt),
                !.allocation_rate_kb_per_sec = Rat(UMul(delta_alloc, 4), dt) ]
    IN  [ withRate EXCEPT !.fragmentation_index = calculate_fragmentation_index(snap) ]

\* lines 444-456: the rates against list.tail and the fragmentation index
derive_rates(snap, last) ==
    LET dt == USub(snap.timestamp_sec, last.timestamp_sec)
        delta_scanned == USub(snap.slabs_scanned, last.slabs_scanned)
        delta_alloc == USub(snap.pgalloc_dma, last.pgalloc_dma)
        withRate ==
            IF dt > 0
            THEN [ snap EXCEPT
                     !.slabs_scanned_per_sec = Rat(delta_scanned, dt),
                     !.allocation_rate_kb_per_sec = Rat(UMul(delta_alloc, 4), dt) ]
            ELSE snap
    IN  [ withRate EXCEPT !.fragmentation_index = calculate_fragmentation_index(snap) ]

\* the nodes reachable from head by following next, in order
RECURSIVE Walk(_, _, _)
Walk(h, from, fuel) ==
    IF from = 0 \/ fuel = 0 THEN <<>>
    ELSE <<from>> \o Walk(h, h[from].next, fuel - 1)

Retained == Walk(heap, head, Len(heap))

\* the row export_csv prints for one snapshot
csv_row(snap) ==
    << snap.timestamp_sec, snap.metaspace_used_kb, snap.slabs_scanned_per_sec,
       snap.kmalloc_1k_active, snap.kmalloc_4k_active, snap.fragmentation_index >>

\* the rows of the list, from head until next is NULL
csv_rows(h, from) ==
    LET nodes == Walk(h, from, Len(h))
    IN  [i \in 1..Len(nodes) |-> csv_row(h[nodes[i]])]

freed_twice_by_cleanup(h, from) == Walk(h, from, Len(h)) \o Walk(h, from, 1)

\* the nodes cleanup_list passes to free(): each node from head, its next
\* pointer read before it is freed
freed_by_cleanup(h, from) == Walk(h, from, Len(h))

signal_handler ==
    /\ pcLoop # "done"
    /\ running' = 0
    /\ UNCHANGED <<pcLoop, heap, head, tail, count, duration, collected, alloc_failed,
                   reports, csv, freed>>
    /\ UNCHANGED notStore

loop_test_ignoring_running(flag) == "body"

loop_test_inverted(flag) == IF flag # 0 THEN "report" ELSE "body"

\* while (running)
loop_test(flag) == IF flag # 0 THEN "body" ELSE "report"

LoopTest ==
    /\ pcLoop = "while"
    /\ pcLoop' = loop_test(running)
    /\ UNCHANGED <<running, heap, head, tail, count, duration, collected, alloc_failed,
                   reports, csv, freed>>
    /\ UNCHANGED notStore

\* calloc returns NULL: the message on stderr, then break
AllocFail ==
    /\ pcLoop = "body"
    /\ alloc_failed' = TRUE
    /\ pcLoop' = "report"
    /\ UNCHANGED <<running, heap, head, tail, count, duration, collected, reports, csv, freed>>
    /\ UNCHANGED notStore

\* one pass of the loop body, from calloc to display_live_stats
Sample ==
    /\ pcLoop = "body"
    /\ count < MaxSnapshots
    /\ \E now \in Times, reading \in Readings :
         LET raw  == parsed_snapshot(now, reading)
             snap == IF tail # 0 THEN derive_rates(raw, heap[tail]) ELSE raw
             addr == Len(heap) + 1
         IN  /\ heap' = IF tail = 0
                        THEN Append(heap, snap)
                        ELSE Append([heap EXCEPT ![tail].next = addr], snap)
             /\ head' = IF tail = 0 THEN addr ELSE head
             /\ tail' = addr
             /\ collected' = Append(collected, reading)
    /\ count' = count + 1
    /\ pcLoop' = "sleep"
    /\ UNCHANGED <<running, duration, alloc_failed, reports, csv, freed>>
    /\ UNCHANGED notStore

\* sleep(interval_sec); a signal ends the sleep early
Sleep ==
    /\ pcLoop = "sleep"
    /\ pcLoop' = "while"
    /\ UNCHANGED <<running, heap, head, tail, count, duration, collected, alloc_failed,
                   reports, csv, freed>>
    /\ UNCHANGED notStore

\* The report printed: the sample count, the duration when there is one, and
\* whether the analysis section follows.  With two or more samples the section
\* shows the figures of analyze_correlation, which are all 0 when one of its
\* malloc calls failed.
generate_report ==
    /\ pcLoop = "report"
    /\ duration' = IF count > 0 /\ head # 0 /\ tail # 0
                   THEN <<USub(heap[tail].timestamp_sec, heap[head].timestamp_sec)>>
                   ELSE <<>>
    /\ \E allocated \in BOOLEAN :
         reports' = Append(reports,
                       [ samples  |-> count,
                         analysis |-> IF count < 2 THEN "not enough samples"
                                      ELSE IF allocated THEN "computed"
                                      ELSE "zero" ])
    /\ pcLoop' = "export"
    /\ UNCHANGED <<running, heap, head, tail, count, collected, alloc_failed, csv, freed>>
    /\ UNCHANGED notStore

export_csv ==
    /\ pcLoop = "export"
    /\ csv' = Append(csv, csv_rows(heap, head))
    /\ pcLoop' = "cleanup"
    /\ UNCHANGED <<running, heap, head, tail, count, duration, collected, alloc_failed,
                   reports, freed>>
    /\ UNCHANGED notStore

cleanup_list ==
    /\ pcLoop = "cleanup"
    /\ heap' = <<>>
    /\ head' = 0
    /\ tail' = 0
    /\ count' = 0
    /\ freed' = freed \o freed_by_cleanup(heap, head)
    /\ pcLoop' = "done"
    /\ UNCHANGED <<running, duration, collected, alloc_failed, reports, csv>>
    /\ UNCHANGED notStore

StoreInit ==
    /\ running = 1
    /\ pcLoop = "while"
    /\ heap = <<>>
    /\ head = 0
    /\ tail = 0
    /\ count = 0
    /\ duration = <<>>
    /\ collected = <<>>
    /\ alloc_failed = FALSE
    /\ reports = <<>>
    /\ csv = <<>>
    /\ freed = <<>>

StoreNext ==
    \/ signal_handler
    \/ LoopTest
    \/ AllocFail
    \/ Sample
    \/ Sleep
    \/ generate_report
    \/ export_csv
    \/ cleanup_list

----------------------------------------------------------------------------
(* The SingleFileJSlab calculations, each applied to drawn inputs *)

\* length of the arrays and lists the calculations are applied to
MaxSeries == 3

\* values of the elements of x and y
PearsonValues == {0, 1, 2, 3}

\* the two series of the linear scenario
LinearX == <<100, 120, 140, 160>>

LinearY == <<10, 12, 14, 16>>

\* uint values converted to double, as lines 323-324 do
Doubles(values) == [i \in 1..Len(values) |-> Rat(values[i], 1)]

FragIdle ==
    /\ fragIn = <<0, 0>>
    /\ fragOut = <<>>

FragInit ==
    /\ fragIn \in (0..WordMod - 1) \X (0..WordMod - 1)
    /\ fragOut = <<>>

CallFragmentationIndex ==
    /\ fragOut = <<>>
    /\ fragOut' = << calculate_fragmentation_index(
                        [calloc_snapshot EXCEPT !.order2_free_pages = fragIn[1],
                                                !.order3_free_pages = fragIn[2]]) >>
    /\ UNCHANGED <<fragIn, pearsonVars, analyzeVars>>
    /\ UNCHANGED notCalc

FragNext == CallFragmentationIndex

PearsonIdle ==
    /\ px = <<>>
    /\ py = <<>>
    /\ pearsonOut = <<>>

PearsonInit ==
    /\ \E n \in 0..MaxSeries :
         \/ /\ px \in [1..n -> PearsonValues]
            /\ py \in [1..n -> PearsonValues]
         \/ /\ px \in {LinearX, LinearY}
            /\ py \in {LinearX, LinearY}
    /\ pearsonOut = <<>>

CallPearsonCorrelation ==
    /\ pearsonOut = <<>>
    /\ pearsonOut' = << pearson_correlation(Doubles(px), Doubles(py), Len(px)) >>
    /\ UNCHANGED <<px, py, fragVars, analyzeVars>>
    /\ UNCHANGED notCalc

PearsonNext == CallPearsonCorrelation

\* the snapshots a list given to analyze_correlation is made of
AnalyzeSnapshots ==
    { [calloc_snapshot EXCEPT !.metaspace_used_kb     = m,
                              !.kmalloc_1k_active     = k,
                              !.slabs_scanned_per_sec = r] :
        m \in {0, 2}, k \in {1, 3}, r \in {RatZero, Rat(1, 2), Rat(2, 1)} }

\* snapshots linked in order through next, the last one ending the list
Linked(snaps) ==
    [i \in 1..Len(snaps) |->
        [snaps[i] EXCEPT !.next = IF i < Len(snaps) THEN i + 1 ELSE 0]]

AnalyzeIdle ==
    /\ aHeap = <<>>
    /\ aHead = 0
    /\ aCount = 0
    /\ analysis = <<>>

AnalyzeInit ==
    /\ \E n \in 0..MaxSeries :
         \E snaps \in [1..n -> AnalyzeSnapshots] :
            /\ aHeap = Linked(snaps)
            /\ aHead = IF n = 0 THEN 0 ELSE 1
            /\ aCount = n
    /\ analysis = <<>>

CallAnalyzeCorrelation ==
    /\ analysis = <<>>
    /\ \E allocated \in BOOLEAN :
         analysis' = << [ result    |-> analyze_correlation(aHeap, aHead, aCount,
                                                            allocated),
                          reads     |-> analyze_reads(aHeap, aHead, aCount, allocated),
                          allocated |-> allocated ] >>
    /\ UNCHANGED <<aHeap, aHead, aCount, fragVars, pearsonVars>>
    /\ UNCHANGED notCalc

AnalyzeNext == CallAnalyzeCorrelation

CalcIdle == FragIdle /\ PearsonIdle /\ AnalyzeIdle

----------------------------------------------------------------------------
(* MetricSeries: the per-metric trend state and its update *)

\* observations fed to one MetricSeries
MaxObs == 4

\* raw values a metric can be observed at
RawValues == {0, 80, 100, 120, 150}

\* smoothing factors in (0, 1]; 0.30 is the default
EMA_ALPHA == Rat(3, 10)

Alphas == {EMA_ALPHA, Rat(1, 2), RatOne}

GROWTH_THRESHOLD == 20

MONO_LIMIT == 3

\* a growth_percent: a finite percentage, or the "undefined/infinite growth"
\* sentinel, which holds no quotient
FiniteGrowth(r) == [infinite |-> FALSE, value |-> r]

INFINITE_GROWTH == [infinite |-> TRUE, value |-> RatZero]

\* g > h on growth_percent values; the sentinel stands for infinite growth
GrowthGreater(g, h) ==
    IF g.infinite THEN ~h.infinite
    ELSE IF h.infinite THEN FALSE
    ELSE RatLess(h.value, g.value)

growth_formula_reversed(prevValue, currentValue) ==
    Normalize(Rat((prevValue - currentValue) * 100, prevValue))

growth_formula_by_current(prevValue, currentValue) ==
    IF currentValue = 0 THEN Rat(-100, 1)
    ELSE Normalize(Rat((currentValue - prevValue) * 100, currentValue))

\* ((currentValue - prevValue) / prevValue) * 100
growth_formula(prevValue, currentValue) ==
    Normalize(Rat((currentValue - prevValue) * 100, prevValue))

ema_formula_swapped(emaAlpha, oldEma, newValue) ==
    LET complement == RatSub(RatOne, emaAlpha)
    IN  Normalize(Rat(complement[1] * newValue * emaAlpha[2] * oldEma[2]
                        + emaAlpha[1] * oldEma[1] * complement[2],
                      emaAlpha[2] * complement[2] * oldEma[2]))

\* emaAlpha * newValue + complement * oldEma, complement = 1 - emaAlpha
ema_formula(emaAlpha, oldEma, newValue) ==
    LET complement == RatSub(RatOne, emaAlpha)
    IN  Normalize(Rat(emaAlpha[1] * newValue * complement[2] * oldEma[2]
                        + complement[1] * oldEma[1] * emaAlpha[2],
                      emaAlpha[2] * complement[2] * oldEma[2]))

reaches_growth_threshold(growth) ==
    growth.infinite \/ RatLeq(Rat(GROWTH_THRESHOLD, 1), growth.value)

\* testValue > growthThreshold
exceeds_growth_threshold(growth) ==
    GrowthGreater(growth, FiniteGrowth(Rat(GROWTH_THRESHOLD, 1)))

exceeds_mono_limit(streak) == streak > MONO_LIMIT

\* count >= monoLimit
reaches_mono_limit(streak) == streak >= MONO_LIMIT

\* a MetricSeries before its first observation
UnsetSeries ==
    [ set            |-> FALSE,
      previous_value |-> 0,
      ema_value      |-> RatZero,
      streak         |-> 0,
      growth_percent |-> FiniteGrowth(RatZero) ]

update_ema(s, raw_value, alpha) ==
    IF ~s.set
    THEN [s EXCEPT !.ema_value = Rat(raw_value, 1)]
    ELSE [s EXCEPT !.ema_value = ema_formula(alpha, s.ema_value, raw_value)]

compute_growth(s, raw_value) ==
    IF ~s.set
    THEN [s EXCEPT !.growth_percent = FiniteGrowth(RatZero)]
    ELSE IF s.previous_value # 0
    THEN [s EXCEPT !.growth_percent =
              FiniteGrowth(growth_formula(s.previous_value, raw_value))]
    ELSE IF raw_value > 0
    THEN [s EXCEPT !.growth_percent = INFINITE_GROWTH]
    ELSE [s EXCEPT !.growth_percent = FiniteGrowth(RatZero)]

update_monotonic(s, raw_value) ==
    [s EXCEPT !.streak = IF s.set /\ raw_value > s.previous_value
                         THEN s.streak + 1 ELSE 0,
              !.previous_value = raw_value,
              !.set = TRUE]

\* the three trend passes of one cycle, in the order main() calls them
MetricUpdateNoMonotonic(s, raw_value, alpha) ==
    [ compute_growth(update_ema(s, raw_value, alpha), raw_value)
        EXCEPT !.previous_value = raw_value, !.set = TRUE ]

MetricUpdate(s, raw_value, alpha) ==
    update_monotonic(compute_growth(update_ema(s, raw_value, alpha), raw_value),
                     raw_value)

TrendResult(s) ==
    [ growth_percent |-> s.growth_percent,
      ema_value      |-> s.ema_value,
      streak         |-> s.streak ]

classify(r) ==
    IF exceeds_growth_threshold(r.growth_percent) THEN "CRITICAL"
    ELSE IF reaches_mono_limit(r.streak) THEN "WARN"
    ELSE "NONE"

\* one observation: update, then classify the result
Observe ==
    /\ Len(obs) < MaxObs
    /\ \E raw_value \in RawValues :
         LET s == MetricUpdate(series, raw_value, sAlpha)
         IN  /\ series' = s
             /\ obs' = Append(obs, raw_value)
             /\ results' = Append(results, TrendResult(s))
             /\ tiers' = Append(tiers, classify(TrendResult(s)))
    /\ UNCHANGED sAlpha
    /\ UNCHANGED notSeries

SeriesIdle ==
    /\ sAlpha = EMA_ALPHA
    /\ series = UnsetSeries
    /\ obs = <<>>
    /\ results = <<>>
    /\ tiers = <<>>

SeriesInit ==
    /\ sAlpha \in Alphas
    /\ series = UnsetSeries
    /\ obs = <<>>
    /\ results = <<>>
    /\ tiers = <<>>

SeriesNext == Observe

----------------------------------------------------------------------------
(* Ranker: top_n *)

\* the largest n asked of top_n
MaxTopN == 5

TOP_N == 10

\* slab cache names, in strcmp order
SlabOrder == <<"kmalloc-1024", "kmalloc-1k", "kmalloc-4096", "kmalloc-4k">>

SlabNames == {SlabOrder[i] : i \in 1..Len(SlabOrder)}

NameIndex(name) == CHOOSE i \in 1..Len(SlabOrder) : SlabOrder[i] = name

\* the trend results the ranking is drawn over
RankGrowths ==
    {FiniteGrowth(Rat(5, 1)), FiniteGrowth(Rat(10, 1)), FiniteGrowth(Rat(40, 1)),
     INFINITE_GROWTH}

RankCurrents == {50, 100}

RankEntries == [growth_percent : RankGrowths, current : RankCurrents]

ascending_before(a, b) == GrowthGreater(b, a)

\* sort(function(a, b) { return b - a }): larger growth first
descending_before(a, b) == GrowthGreater(a, b)

\* whether metric x is ranked before metric y
ranks_before(input, x, y) ==
    LET a == input[x]
        b == input[y]
    IN  IF descending_before(a.growth_percent, b.growth_percent) THEN TRUE
        ELSE IF descending_before(b.growth_percent, a.growth_percent) THEN FALSE
        ELSE IF a.current # b.current THEN a.current > b.current
        ELSE NameIndex(x) < NameIndex(y)

\* names, sorted by ranks_before
RECURSIVE sort_by_rank(_, _)
sort_by_rank(input, names) ==
    IF names = {} THEN <<>>
    ELSE LET first == CHOOSE x \in names :
                         \A y \in names \ {x} : ranks_before(input, x, y)
         IN  <<first>> \o sort_by_rank(input, names \ {first})

top_n(input, n) ==
    LET sorted == sort_by_rank(input, DOMAIN input)
        len    == IF n < Len(sorted) THEN n ELSE Len(sorted)
    IN  [i \in 1..len |->
            [name |-> sorted[i], growth_percent |-> input[sorted[i]].growth_percent]]

RankCall ==
    /\ ranking = <<>>
    /\ ranking' = <<top_n(rankInput, rankN)>>
    /\ UNCHANGED <<rankInput, rankN>>
    /\ UNCHANGED notRank

RankIdle ==
    /\ rankInput = <<>>
    /\ rankN = 0
    /\ ranking = <<>>

RankInit ==
    /\ rankInput \in UNION {[S -> RankEntries] : S \in SUBSET SlabNames}
    /\ rankN \in 0..MaxTopN
    /\ ranking = <<>>

RankNext == RankCall

----------------------------------------------------------------------------
(* SlabGrowthDetector: the vmstat list (vmstatlist.h) *)

\* sampling cycles of main()'s loop
MaxCycles == 3

\* width, in bits, the model gives unsigned int (scaled down from 32)
UIntBits == 16

UIntMod == 2 ^ UIntBits

LOW_FREE_PAGES == 10000

\* pointers: &vmstat_head, NULL; a malloc'ed node's address is its index
HEADP == 0

NULLP == -1

\* the /proc/vmstat lines the model reads, in file order, and their values
VmOrder == <<"nr_free_pages", "nr_slab_unreclaimable">>

VmNames == {VmOrder[i] : i \in 1..Len(VmOrder)}

VmValues(name) ==
    IF name = "nr_free_pages" THEN {5000, 15000} ELSE {4000, 5000}

\* the /proc/slabinfo caches the model tracks, and their object counts
TrackedSlabs == {"kmalloc-1k"}

SlabValues == {100, 120}

Names == VmNames \cup TrackedSlabs

\* what one read of /proc/vmstat yields: some of its names, each with a value
VmFiles ==
    UNION { { f \in [S -> UNION {VmValues(n) : n \in S}] :
                \A n \in S : f[n] \in VmValues(n) }
            : S \in SUBSET VmNames }

\* what one read of /proc/slabinfo yields
SlabFiles == UNION { [S -> SlabValues] : S \in SUBSET TrackedSlabs }

\* the zero-initialised global list head, before init_vmstat_list
EmptyMemory == [head |-> [prev |-> NULLP, next |-> NULLP], nodes |-> <<>>]

NextOf(mem, p) == IF p = HEADP THEN mem.head.next ELSE mem.nodes[p].next

SetPrev(mem, p, v) ==
    IF p = HEADP THEN [mem EXCEPT !.head.prev = v]
    ELSE [mem EXCEPT !.nodes[p].prev = v]

\* INIT_LIST_HEAD(&vmstat_head)
init_vmstat_list(mem) == [mem EXCEPT !.head = [prev |-> HEADP, next |-> HEADP]]

list_add_vmstat(mem, new_stat) ==
    LET m1 == [mem EXCEPT !.nodes[new_stat].next = mem.head.next,
                          !.nodes[new_stat].prev = HEADP]
        m2 == SetPrev(m1, m1.head.next, new_stat)
    IN  [m2 EXCEPT !.head.next = new_stat]

\* the loop of list_find_vmstat from pos; NULLP when it comes back to the head
RECURSIVE find_from(_, _, _, _)
find_from(mem, pos, name, fuel) ==
    IF pos = HEADP \/ pos = NULLP \/ fuel = 0 THEN NULLP
    ELSE IF mem.nodes[pos].name = name THEN pos
    ELSE find_from(mem, mem.nodes[pos].next, name, fuel - 1)

list_find_vmstat(mem, name) ==
    find_from(mem, mem.head.next, name, Len(mem.nodes))

list_update_or_add_first(mem, name, new_stats) ==
    IF mem.head.next # HEADP
    THEN [mem EXCEPT !.nodes[mem.head.next].stats = new_stats]
    ELSE LET new_entry == Len(mem.nodes) + 1
             alloc == [mem EXCEPT !.nodes = Append(mem.nodes,
                          [prev |-> NULLP, next |-> NULLP,
                           name |-> name, stats |-> new_stats])]
         IN  list_add_vmstat(alloc, new_entry)

list_always_add(mem, name, new_stats) ==
    LET new_entry == Len(mem.nodes) + 1
        alloc == [mem EXCEPT !.nodes = Append(mem.nodes,
                     [prev |-> NULLP, next |-> NULLP,
                      name |-> name, stats |-> new_stats])]
    IN  list_add_vmstat(alloc, new_entry)

list_update_or_add_vmstat(mem, name, new_stats) ==
    LET entry == list_find_vmstat(mem, name)
    IN  IF entry # NULLP
        THEN [mem EXCEPT !.nodes[entry].stats = new_stats]
        ELSE LET new_entry == Len(mem.nodes) + 1
                 alloc == [mem EXCEPT !.nodes = Append(mem.nodes,
                              [prev |-> NULLP, next |-> NULLP,
                               name |-> name, stats |-> new_stats])]
             IN  list_add_vmstat(alloc, new_entry)

get_vmstat(mem, name) ==
    LET entry == list_find_vmstat(mem, name)
    IN  IF entry # NULLP THEN mem.nodes[entry].stats ELSE 0

\* the fscanf loop of parse_vmstat over the lines of file, from line i on
RECURSIVE parse_lines(_, _, _)
parse_lines(mem, file, i) ==
    IF i > Len(VmOrder) THEN mem
    ELSE IF VmOrder[i] \in DOMAIN file
    THEN parse_lines(list_update_or_add_vmstat(mem, VmOrder[i],
                                               file[VmOrder[i]] % UIntMod),
                     file, i + 1)
    ELSE parse_lines(mem, file, i + 1)

----------------------------------------------------------------------------
(* SlabGrowthDetector: main() *)

\* f and g joined; their domains are disjoint
Merge(f, g) ==
    [n \in (DOMAIN f) \cup (DOMAIN g) |-> IF n \in DOMAIN f THEN f[n] ELSE g[n]]

\* the trend passes, each over the metrics present in the snapshot
update_ema_for_slabs(tr, sn) ==
    [n \in Names |->
        IF n \in DOMAIN sn THEN update_ema(tr[n], sn[n], EMA_ALPHA) ELSE tr[n]]

compute_growth_for_slabs(tr, sn) ==
    [n \in Names |-> IF n \in DOMAIN sn THEN compute_growth(tr[n], sn[n]) ELSE tr[n]]

update_monotonic_for_slabs(tr, sn) ==
    [n \in Names |-> IF n \in DOMAIN sn THEN update_monotonic(tr[n], sn[n]) ELSE tr[n]]

\* the first observation of every metric of the initial snapshot
init_trend_tracking(tr, sn) ==
    [n \in Names |->
        IF n \in DOMAIN sn THEN MetricUpdate(tr[n], sn[n], EMA_ALPHA) ELSE tr[n]]

\* the slabs show_topN_slabs ranks: those observed at least once
RankedSlabs(tr) ==
    [n \in {m \in TrackedSlabs : tr[m].set} |->
        [growth_percent |-> tr[n].growth_percent, current |-> tr[n].previous_value]]

trend_pass_monotonic_first(k) ==
    IF k = 1 THEN "update_monotonic"
    ELSE IF k = 2 THEN "update_ema"
    ELSE "compute_growth"

\* main.c 59-61: the k-th trend update of a cycle
trend_pass(k) ==
    IF k = 1 THEN "update_ema"
    ELSE IF k = 2 THEN "compute_growth"
    ELSE "update_monotonic"

\* the call that follows the trend update p
after_pass(p) ==
    IF p = trend_pass(1) THEN trend_pass(2)
    ELSE IF p = trend_pass(2) THEN trend_pass(3)
    ELSE "correlate"

after_parse_slabinfo_without_init(in_loop) == trend_pass(1)

\* the call that follows parse_slabinfo(): init_trend_tracking() after the
\* initial snapshot, the trend updates inside the loop
after_parse_slabinfo(in_loop) ==
    IF in_loop THEN trend_pass(1) ELSE "init_trend_tracking"

InitVmstatList ==
    /\ pcMain = "init_vmstat_list"
    /\ vmstat_list' = init_vmstat_list(vmstat_list)
    /\ pcMain' = "init_slab_list"
    /\ UNCHANGED <<inLoop, cycle, observed, trend, pressure, alerts, topN, summary>>
    /\ UNCHANGED notMain

InitSlabList ==
    /\ pcMain = "init_slab_list"
    /\ pcMain' = "parse_vmstat"
    /\ UNCHANGED <<inLoop, cycle, vmstat_list, observed, trend, pressure, alerts, topN,
                   summary>>
    /\ UNCHANGED notMain

\* parse_vmstat(): a failed fopen reads nothing, like an empty file
ParseVmstat ==
    /\ pcMain = "parse_vmstat"
    /\ \E file \in VmFiles :
         /\ vmstat_list' = parse_lines(vmstat_list, file, 1)
         /\ observed' = file
    /\ pcMain' = "parse_slabinfo"
    /\ UNCHANGED <<inLoop, cycle, trend, pressure, alerts, topN, summary>>
    /\ UNCHANGED notMain

ParseSlabinfo ==
    /\ pcMain = "parse_slabinfo"
    /\ \E file \in SlabFiles : observed' = Merge(observed, file)
    /\ pcMain' = after_parse_slabinfo(inLoop)
    /\ UNCHANGED <<inLoop, cycle, vmstat_list, trend, pressure, alerts, topN, summary>>
    /\ UNCHANGED notMain

InitTrendTracking ==
    /\ pcMain = "init_trend_tracking"
    /\ trend' = init_trend_tracking(trend, observed)
    /\ inLoop' = TRUE
    /\ pcMain' = "sleep"
    /\ UNCHANGED <<cycle, vmstat_list, observed, pressure, alerts, topN, summary>>
    /\ UNCHANGED notMain

\* sleep(INTERVAL) at the top of the loop body
SleepInterval ==
    /\ pcMain = "sleep"
    /\ cycle < MaxCycles
    /\ cycle' = cycle + 1
    /\ pressure' = FALSE
    /\ pcMain' = "parse_vmstat"
    /\ UNCHANGED <<inLoop, vmstat_list, observed, trend, alerts, topN, summary>>
    /\ UNCHANGED notMain

UpdateEmaForSlabs ==
    /\ pcMain = "update_ema"
    /\ trend' = update_ema_for_slabs(trend, observed)
    /\ pcMain' = after_pass("update_ema")
    /\ UNCHANGED <<inLoop, cycle, vmstat_list, observed, pressure, alerts, topN, summary>>
    /\ UNCHANGED notMain

ComputeGrowthForSlabs ==
    /\ pcMain = "compute_growth"
    /\ trend' = compute_growth_for_slabs(trend, observed)
    /\ pcMain' = after_pass("compute_growth")
    /\ UNCHANGED <<inLoop, cycle, vmstat_list, observed, pressure, alerts, topN, summary>>
    /\ UNCHANGED notMain

UpdateMonotonicForSlabs ==
    /\ pcMain = "update_monotonic"
    /\ trend' = update_monotonic_for_slabs(trend, observed)
    /\ pcMain' = after_pass("update_monotonic")
    /\ UNCHANGED <<inLoop, cycle, vmstat_list, observed, pressure, alerts, topN, summary>>
    /\ UNCHANGED notMain

\* the composite rule: free memory under the floor while unreclaimable slab grows
correlate_vmstat_slab(mem, tr) ==
    /\ get_vmstat(mem, "nr_free_pages") < LOW_FREE_PAGES
    /\ tr["nr_slab_unreclaimable"].streak > 0

CorrelateVmstatSlab ==
    /\ pcMain = "correlate"
    /\ pressure' = correlate_vmstat_slab(vmstat_list, trend)
    /\ pcMain' = "show_topN"
    /\ UNCHANGED <<inLoop, cycle, vmstat_list, observed, trend, alerts, topN, summary>>
    /\ UNCHANGED notMain

ShowTopNSlabs ==
    /\ pcMain = "show_topN"
    /\ topN' = top_n(RankedSlabs(trend), TOP_N)
    /\ alerts' = [n \in DOMAIN RankedSlabs(trend) |-> classify(TrendResult(trend[n]))]
    /\ pcMain' = "show_vmstat_summary"
    /\ UNCHANGED <<inLoop, cycle, vmstat_list, observed, trend, pressure, summary>>
    /\ UNCHANGED notMain

ShowVmstatSummary ==
    /\ pcMain = "show_vmstat_summary"
    /\ summary' = << get_vmstat(vmstat_list, "nr_free_pages"),
                     get_vmstat(vmstat_list, "nr_slab_reclaimable"),
                     get_vmstat(vmstat_list, "nr_slab_unreclaimable") >>
    /\ pcMain' = "sleep"
    /\ UNCHANGED <<inLoop, cycle, vmstat_list, observed, trend, pressure, alerts, topN>>
    /\ UNCHANGED notMain

MainInit ==
    /\ pcMain = "init_vmstat_list"
    /\ inLoop = FALSE
    /\ cycle = 0
    /\ vmstat_list = EmptyMemory
    /\ observed = <<>>
    /\ trend = [n \in Names |-> UnsetSeries]
    /\ pressure = FALSE
    /\ alerts = <<>>
    /\ topN = <<>>
    /\ summary = <<>>

MainIdle == MainInit

MainNext ==
    \/ InitVmstatList
    \/ InitSlabList
    \/ ParseVmstat
    \/ ParseSlabinfo
    \/ InitTrendTracking
    \/ SleepInterval
    \/ UpdateEmaForSlabs
    \/ ComputeGrowthForSlabs
    \/ UpdateMonotonicForSlabs
    \/ CorrelateVmstatSlab
    \/ ShowTopNSlabs
    \/ ShowVmstatSummary

----------------------------------------------------------------------------
(* The vmstat list on its own: parse_vmstat's calls, one line at a time *)

\* lines parsed in one run
MaxLines == 4

\* the names on the lines
LineNames == {"nr_free_pages", "nr_slab_reclaimable", "nr_slab_unreclaimable"}

\* the values strtoull reads from the lines; the last exceeds unsigned int
LineValues == {0, 7, UIntMod + 9}

VmstatInit == supplied = <<>>

VmstatIdle == VmstatInit

\* init_vmstat_list(), called once before the first parse
CallInitVmstatList ==
    /\ vmstat_list = EmptyMemory
    /\ vmstat_list' = init_vmstat_list(vmstat_list)
    /\ UNCHANGED <<pcMain, inLoop, cycle, observed, trend, pressure, alerts, topN,
                   summary>>
    /\ UNCHANGED <<supplied, storeVars, seriesVars, rankVars, calcVars, slabVars>>

\* parse_vmstat line 106: list_update_or_add_vmstat(name, (unsigned int)val)
CallListUpdateOrAdd ==
    /\ vmstat_list # EmptyMemory
    /\ Len(supplied) < MaxLines
    /\ \E name \in LineNames, val \in LineValues :
         /\ vmstat_list' = list_update_or_add_vmstat(vmstat_list, name,
                                                     val % UIntMod)
         /\ supplied' = Append(supplied, <<name, val>>)
    /\ UNCHANGED <<pcMain, inLoop, cycle, observed, trend, pressure, alerts, topN,
                   summary>>
    /\ UNCHANGED <<storeVars, seriesVars, rankVars, calcVars, slabVars>>

VmstatNext ==
    \/ CallInitVmstatList
    \/ CallListUpdateOrAdd

----------------------------------------------------------------------------
(* JSlabLeakDetector: slablist.h *)

\* calls made in one run
MaxSlabCalls == 3

\* A malloc'ed block.  In the first revision struct snapshot embeds its list
\* node (DataStructures.h line 67), so the node's address is the snapshot's and
\* l is that address; in the second revision l points to a block of its own.
SlabBlock(kind, enumtype, l, svar, next, prev) ==
    [ kind |-> kind, live |-> TRUE, enumtype |-> enumtype, l |-> l,
      svar |-> svar, next |-> next, prev |-> prev ]

\* what malloc leaves in a pointer field nobody has written: any address
Indeterminate(mem) == 0..(Len(mem) + 1)

Outcome(mem, ret, hsi, hvm, fault) ==
    [ mem |-> mem, ret |-> ret, headslabinfo |-> hsi, headvmstat |-> hvm,
      fault |-> fault ]

\* free(p)
free(mem, p) == IF p = 0 THEN mem ELSE [mem EXCEPT ![p].live = FALSE]

\* slablist.h 34-53.  next and prev are what malloc left in slabs->l.
init_slab_list_1(mem, hsi, hvm, ok, next, prev) ==
    LET slabs == IF ok THEN Len(mem) + 1 ELSE 0
    IN  IF slabs = 0
        THEN \* slabs->enumtype = SLABINFO through the null pointer
             Outcome(mem, 0, hsi, hvm, TRUE)
        ELSE Outcome(Append(mem, SlabBlock("snapshot", "SLABINFO", slabs, 0,
                                           next, prev)),
                     slabs, hsi, hvm, FALSE)

\* slablist.h 123-146
init_slab_list_2(mem, hsi, hvm, ok1, ok2) ==
    LET slabs == IF ok1 THEN Len(mem) + 1 ELSE 0
        node  == IF ok2 THEN Len(mem) + 2 ELSE 0
        m1 == Append(mem, SlabBlock("snapshot", "", 0, 0, 0, 0))
    IN  IF slabs = 0 THEN Outcome(mem, 0, hsi, hvm, FALSE)
        ELSE IF node = 0 THEN Outcome(free(m1, slabs), 0, hsi, hvm, FALSE)
        ELSE Outcome(Append([m1 EXCEPT ![slabs].l = node,
                                       ![slabs].enumtype = "SLABINFO"],
                            SlabBlock("list", "", 0, 0, node, node)),
                     slabs, hsi, hvm, FALSE)

\* slablist.h 55-95
init_slab_list_noptr_1(mem, hsi, hvm, ok1, ok2) ==
    LET slabs == IF ok1 THEN Len(mem) + 1 ELSE 0
        svar  == IF ok2 THEN Len(mem) + 2 ELSE 0
        m1 == Append(mem, SlabBlock("snapshot", "SLABINFO", slabs, 0, 0, 0))
        m2 == Append([m1 EXCEPT ![slabs].svar = svar],
                     SlabBlock("slabinfo", "", 0, 0, 0, 0))
    IN  IF slabs = 0 THEN Outcome(free(mem, slabs), 0, hsi, hvm, FALSE)
        ELSE IF svar = 0 THEN Outcome(free(m1, slabs), 0, hsi, hvm, FALSE)
        ELSE IF hsi = 0
        THEN \* headslabinfo->next = &slabs->l through the null head
             Outcome(m2, 0, hsi, hvm, TRUE)
        ELSE Outcome(m2, 0, hsi, hvm, FALSE)

\* slablist.h 148-179
init_slab_list_noptr_2(mem, hsi, hvm, ok1, ok2) ==
    LET slabs == IF ok1 THEN Len(mem) + 1 ELSE 0
        node  == IF ok2 THEN Len(mem) + 2 ELSE 0
        m1 == Append(mem, SlabBlock("snapshot", "", 0, 0, 0, 0))
        m2 == Append([m1 EXCEPT ![slabs].l = node,
                                ![slabs].enumtype = "SLABINFO"],
                     SlabBlock("list", "", 0, 0, 0, 0))
    IN  IF slabs = 0 THEN Outcome(mem, 0, hsi, hvm, FALSE)
        ELSE IF node = 0 THEN Outcome(free(m1, slabs), 0, hsi, hvm, FALSE)
        ELSE IF hvm = 0
        THEN Outcome([m2 EXCEPT ![node].next = node, ![node].prev = node],
                     0, hsi, node, FALSE)
        ELSE LET last == m2[hvm].prev
                 m3 == [m2 EXCEPT ![node].next = hvm, ![node].prev = last]
                 m4 == [m3 EXCEPT ![last].next = node]
             IN  Outcome([m4 EXCEPT ![hvm].prev = node], 0, hsi, hvm, FALSE)

\* what a call leaves behind, and the record of the call
Returned(fn, before, ok1, ok2, out) ==
    /\ slabMem' = out.mem
    /\ headslabinfo' = out.headslabinfo
    /\ headvmstat' = out.headvmstat
    /\ slabFault' = out.fault
    /\ slabCalls' = Append(slabCalls,
                       [ fn |-> fn, malloc1 |-> ok1, malloc2 |-> ok2,
                         ret |-> out.ret, fault |-> out.fault,
                         blocks |-> (Len(before) + 1)..Len(out.mem) ])
    /\ UNCHANGED slabRev
    /\ UNCHANGED notSlab

CallInitSlabList ==
    /\ ~slabFault
    /\ Len(slabCalls) < MaxSlabCalls
    /\ \E ok1 \in BOOLEAN, ok2 \in BOOLEAN :
         IF slabRev = 1
         THEN /\ ok2
              /\ \E next \in Indeterminate(slabMem), prev \in Indeterminate(slabMem) :
                   Returned("init_slab_list", slabMem, ok1, ok2,
                            init_slab_list_1(slabMem, headslabinfo, headvmstat,
                                             ok1, next, prev))
         ELSE Returned("init_slab_list", slabMem, ok1, ok2,
                       init_slab_list_2(slabMem, headslabinfo, headvmstat,
                                        ok1, ok2))

CallInitSlabListNoptr ==
    /\ ~slabFault
    /\ Len(slabCalls) < MaxSlabCalls
    /\ \E ok1 \in BOOLEAN, ok2 \in BOOLEAN :
         Returned("init_slab_list_noptr", slabMem, ok1, ok2,
                  IF slabRev = 1
                  THEN init_slab_list_noptr_1(slabMem, headslabinfo, headvmstat,
                                              ok1, ok2)
                  ELSE init_slab_list_noptr_2(slabMem, headslabinfo, headvmstat,
                                              ok1, ok2))

\* main.c 7-9: every global list head starts NULL
SlabInit ==
    /\ slabRev \in {1, 2}
    /\ slabMem = <<>>
    /\ headslabinfo = 0
    /\ headvmstat = 0
    /\ slabCalls = <<>>
    /\ slabFault = FALSE

SlabIdle ==
    /\ slabRev = 1
    /\ slabMem = <<>>
    /\ headslabinfo = 0
    /\ headvmstat = 0
    /\ slabCalls = <<>>
    /\ slabFault = FALSE

SlabNext ==
    \/ CallInitSlabList
    \/ CallInitSlabListNoptr

LibIdle == VmstatIdle /\ SlabIdle

----------------------------------------------------------------------------
(* Specifications *)

InitStore == StoreInit /\ SeriesIdle /\ RankIdle /\ MainIdle /\ CalcIdle /\ LibIdle

SpecStore == InitStore /\ [][StoreNext]_vars

\* collection_loop runs on: every step of the program is eventually taken, the
\* sleep returns, and nothing obliges a signal to arrive
StoreStep ==
    LoopTest \/ AllocFail \/ Sample \/ Sleep \/ generate_report \/ export_csv
        \/ cleanup_list

SpecStoreLive == InitStore /\ [][StoreNext]_vars /\ WF_vars(StoreStep)

InitSeries == SeriesInit /\ StoreInit /\ RankIdle /\ MainIdle /\ CalcIdle /\ LibIdle

SpecSeries == InitSeries /\ [][SeriesNext]_vars

InitRank == RankInit /\ StoreInit /\ SeriesIdle /\ MainIdle /\ CalcIdle /\ LibIdle

SpecRank == InitRank /\ [][RankNext]_vars

InitMain == MainInit /\ StoreInit /\ SeriesIdle /\ RankIdle /\ CalcIdle /\ LibIdle

Spec == InitMain /\ [][MainNext]_vars

InitFrag ==
    FragInit /\ PearsonIdle /\ AnalyzeIdle /\ StoreInit /\ SeriesIdle /\ RankIdle
        /\ MainIdle /\ LibIdle

SpecFrag == InitFrag /\ [][FragNext]_vars

InitPearson ==
    PearsonInit /\ FragIdle /\ AnalyzeIdle /\ StoreInit /\ SeriesIdle /\ RankIdle
        /\ MainIdle /\ LibIdle

SpecPearson == InitPearson /\ [][PearsonNext]_vars

InitAnalyze ==
    AnalyzeInit /\ FragIdle /\ PearsonIdle /\ StoreInit /\ SeriesIdle /\ RankIdle
        /\ MainIdle /\ LibIdle

SpecAnalyze == InitAnalyze /\ [][AnalyzeNext]_vars

InitVmstat ==
    VmstatInit /\ MainInit /\ StoreInit /\ SeriesIdle /\ RankIdle /\ CalcIdle
        /\ SlabIdle

SpecVmstat == InitVmstat /\ [][VmstatNext]_vars

InitSlab ==
    SlabInit /\ VmstatIdle /\ MainIdle /\ StoreInit /\ SeriesIdle /\ RankIdle
        /\ CalcIdle

SpecSlab == InitSlab /\ [][SlabNext]_vars

----------------------------------------------------------------------------
(* Claims about the snapshot store *)

\* C1: a snapshot whose timestamp is earlier than the timestamp of the store's
\* current last snapshot is never appended: no step grows the store with a
\* snapshot older than the one that was last.
C1_EarlierSnapshotRejected ==
    [][ ~ ( /\ tail # 0
            /\ count' = count + 1
            /\ heap'[tail'].timestamp_sec < heap[tail].timestamp_sec ) ]_vars

\* C2: in every reachable state the timestamps of consecutive retained
\* snapshots are non-decreasing, so last minus first never goes below zero.
C2_TimestampsNonDecreasing ==
    \A i \in 1..(Len(Retained) - 1) :
        heap[Retained[i]].timestamp_sec <= heap[Retained[i + 1]].timestamp_sec

----------------------------------------------------------------------------
(* Claims about MetricSeries *)

SeqMin(q, k) == CHOOSE m \in {q[i] : i \in 1..k} : \A i \in 1..k : m <= q[i]

SeqMax(q, k) == CHOOSE m \in {q[i] : i \in 1..k} : \A i \in 1..k : m >= q[i]

StrictlyIncreasing(q) == \A i \in 1..(Len(q) - 1) : q[i] < q[i + 1]

GrowthIs(g, n) == ~g.infinite /\ g.value[1] = n * g.value[2]

\* C3: the streak is 0 after the first update; on each later update it is the
\* old streak plus 1 if the raw value is strictly greater than the previous
\* value and 0 otherwise.
C3_StreakRule ==
    /\ Len(results) = Len(obs)
    /\ \A k \in 1..Len(obs) :
         results[k].streak =
            IF k > 1 /\ obs[k] > obs[k - 1] THEN results[k - 1].streak + 1 ELSE 0
    /\ Len(obs) > 0 => series.streak = results[Len(obs)].streak

C3_Witness ==
    /\ obs = <<100, 100, 120, 150>>
    /\ [k \in 1..4 |-> results[k].streak] = <<0, 0, 1, 2>>

\* C4: along a strictly increasing sequence of raw values (also one that
\* starts at 0) the streak after the k-th observation is k - 1 for k >= 2 and
\* growth_percent is greater than 0 on every observation after the first.
C4_IncreasingSequence ==
    StrictlyIncreasing(obs) =>
        \A k \in 2..Len(obs) :
            /\ results[k].streak = k - 1
            /\ \/ results[k].growth_percent.infinite
               \/ results[k].growth_percent.value[1] > 0

C4_Witness ==
    /\ obs = <<0, 80, 100, 120>>
    /\ results[4].streak = 3
    /\ results[2].growth_percent.infinite

\* C5: growth_percent is 0 on the first update; afterwards it is
\* (raw - previous) / previous * 100 when previous is not 0, the infinite-growth
\* sentinel (no quotient) when previous is 0 and raw is positive, and 0 when
\* both are 0.
C5_GrowthPercent ==
    \A k \in 1..Len(obs) :
        LET g == results[k].growth_percent
        IN  IF k = 1 THEN GrowthIs(g, 0)
            ELSE IF obs[k - 1] # 0
            THEN /\ ~g.infinite
                 /\ g.value[2] > 0
                 /\ g.value[1] * obs[k - 1] = (obs[k] - obs[k - 1]) * 100 * g.value[2]
            ELSE IF obs[k] > 0 THEN g = INFINITE_GROWTH
            ELSE GrowthIs(g, 0)

C5_Witness ==
    /\ obs = <<100, 120, 100, 80>>
    /\ GrowthIs(results[2].growth_percent, 20)
    /\ GrowthIs(results[4].growth_percent, -20)

\* C6: after the first observation ema_value is that raw value; after each
\* later one it is alpha * raw + (1 - alpha) * old ema_value; and it always
\* lies between the smallest and the largest raw value observed so far.
C6_EmaRule ==
    \A k \in 1..Len(obs) :
        LET n == results[k].ema_value
        IN  /\ n[2] > 0
            /\ IF k = 1 THEN n = Rat(obs[1], 1)
               ELSE LET e == results[k - 1].ema_value
                    IN  n[1] * (sAlpha[2] * e[2]) =
                          (sAlpha[1] * obs[k] * e[2] + (sAlpha[2] - sAlpha[1]) * e[1]) * n[2]
            /\ SeqMin(obs, k) * n[2] <= n[1]
            /\ n[1] <= SeqMax(obs, k) * n[2]

C6_Witness ==
    /\ sAlpha = Rat(3, 10)
    /\ obs = <<100, 150>>
    /\ results[2].ema_value = Rat(115, 1)

\* C7: every observation gets exactly one tier: CRITICAL when growth_percent is
\* strictly greater than the growth threshold, WARN when it is not CRITICAL and
\* the streak has reached the streak threshold, NONE otherwise.
C7_Classify ==
    /\ Len(tiers) = Len(obs)
    /\ \A k \in 1..Len(tiers) :
         LET g == results[k].growth_percent
             critical == g.infinite \/ g.value[1] > GROWTH_THRESHOLD * g.value[2]
             warn == ~critical /\ results[k].streak >= MONO_LIMIT
         IN  tiers[k] = IF critical THEN "CRITICAL"
                        ELSE IF warn THEN "WARN" ELSE "NONE"

C7_Witness ==
    /\ obs = <<80, 100, 120, 150>>
    /\ GrowthIs(results[3].growth_percent, 20)
    /\ results[3].streak = 2
    /\ tiers = <<"NONE", "CRITICAL", "NONE", "CRITICAL">>

----------------------------------------------------------------------------
(* Claims about the ranking, the composite alert and the frame of an update *)

\* the order of the ranking: growth descending (infinite growth first), then
\* the higher current value, then the name
Outranks(x, y) ==
    LET gx == rankInput[x].growth_percent
        gy == rankInput[y].growth_percent
        more == \/ gx.infinite /\ ~gy.infinite
                \/ ~gx.infinite /\ ~gy.infinite
                     /\ gx.value[1] * gy.value[2] > gy.value[1] * gx.value[2]
        less == \/ gy.infinite /\ ~gx.infinite
                \/ ~gx.infinite /\ ~gy.infinite
                     /\ gy.value[1] * gx.value[2] > gx.value[1] * gy.value[2]
    IN  \/ more
        \/ ~more /\ ~less /\ rankInput[x].current > rankInput[y].current
        \/ ~more /\ ~less /\ rankInput[x].current = rankInput[y].current
             /\ NameIndex(x) < NameIndex(y)

\* C8: top_n returns min(n, number of metrics) entries, each metric at most
\* once, ordered by growth_percent descending, then by the higher current value,
\* then by name, and no metric left out outranks a returned one.
C8_TopN ==
    ranking # <<>> =>
        LET r == ranking[1]
            returned == {r[i].name : i \in 1..Len(r)}
            metrics == DOMAIN rankInput
        IN  /\ Len(r) = IF rankN < Cardinality(metrics) THEN rankN
                        ELSE Cardinality(metrics)
            /\ returned \subseteq metrics
            /\ Cardinality(returned) = Len(r)
            /\ \A i \in 1..Len(r) :
                 r[i].growth_percent = rankInput[r[i].name].growth_percent
            /\ \A i \in 1..Len(r), j \in 1..Len(r) :
                 i < j => Outranks(r[i].name, r[j].name)
            /\ \A m \in metrics \ returned, i \in 1..Len(r) : Outranks(r[i].name, m)

\* growths [5, 40, 40, 10] with n = 2: the two 40% entries, higher value first
C8_Witness ==
    /\ rankN = 2
    /\ DOMAIN rankInput = SlabNames
    /\ [i \in 1..4 |-> rankInput[SlabOrder[i]].growth_percent] =
          << FiniteGrowth(Rat(5, 1)), FiniteGrowth(Rat(40, 1)),
             FiniteGrowth(Rat(40, 1)), FiniteGrowth(Rat(10, 1)) >>
    /\ rankInput[SlabOrder[2]].current = 50
    /\ rankInput[SlabOrder[3]].current = 100
    /\ ranking # <<>>
    /\ [i \in 1..2 |-> ranking[1][i].name] = <<SlabOrder[3], SlabOrder[2]>>

C10_Frame ==
    [][ /\ pcMain \in {"init_trend_tracking", "update_ema", "compute_growth",
                       "update_monotonic"}
          => \A n \in Names \ DOMAIN observed :
                /\ trend'[n] = trend[n]
                /\ trend'[n].previous_value = trend[n].previous_value
                /\ trend'[n].ema_value = trend[n].ema_value
                /\ trend'[n].streak = trend[n].streak
        /\ pcMain = "update_monotonic"
          => \A n \in DOMAIN observed : trend'[n].previous_value = observed[n]
        /\ pcMain = "parse_vmstat"
          => \A n \in VmNames :
                get_vmstat(vmstat_list', n) =
                    IF n \in DOMAIN observed' THEN observed'[n] % UIntMod
                    ELSE get_vmstat(vmstat_list, n)
        /\ pcMain # "parse_vmstat" => vmstat_list' = vmstat_list \/ pcMain = "init_vmstat_list"
      ]_vars

\* a cycle in which nr_free_pages was not reported while nr_slab_unreclaimable
\* grew: the absent metric keeps its state, the present one advances
C10_Witness ==
    /\ pcMain = "correlate"
    /\ cycle = 1
    /\ DOMAIN observed = {"nr_slab_unreclaimable"}
    /\ trend["nr_free_pages"].set
    /\ trend["nr_free_pages"].previous_value = 15000
    /\ get_vmstat(vmstat_list, "nr_free_pages") = 15000
    /\ trend["nr_slab_unreclaimable"].streak = 1
    /\ trend["kmalloc-1k"].set

----------------------------------------------------------------------------
(* The correlation engine and the fragmentation index *)

Finite(d) == d.class = "finite"

\* C11: analyze_correlation on a list of fewer than 2 snapshots returns
\* correlation, coefficient of variation and mean all equal to 0, as finite
\* values, and reads no snapshot at all, so never one that is missing.
C11_ShortHistory ==
    (analysis # <<>> /\ aCount < 2) =>
        /\ analysis[1].result.correlation = DblZero
        /\ analysis[1].result.coefficient_var = DblZero
        /\ analysis[1].result.mean_pressure = RatZero
        /\ Finite(analysis[1].result.correlation)
        /\ Finite(analysis[1].result.coefficient_var)
        /\ analysis[1].reads = <<>>
        /\ \A i \in 1..Len(analysis[1].reads) : analysis[1].reads[i] # 0

\* a list of one snapshot whose scan rate is 2, analysed with memory to spare
C11_Witness ==
    /\ analysis # <<>>
    /\ aCount = 1
    /\ aHeap[1].slabs_scanned_per_sec = Rat(2, 1)
    /\ analysis[1].allocated
    /\ analysis[1].result = ZeroResult

Constant(values) == \A i, j \in 1..Len(values) : values[i] = values[j]

\* C12: for two arrays of equal length >= 2 of which at least one holds the
\* same value throughout, pearson_correlation returns exactly 0: a finite
\* zero, not the NaN a division by the zero denominator yields.
C12_ZeroVariance ==
    (pearsonOut # <<>> /\ Len(px) >= 2 /\ Len(px) = Len(py)
        /\ (Constant(px) \/ Constant(py))) =>
        /\ pearsonOut[1] = DblZero
        /\ Finite(pearsonOut[1])

C12_Witness ==
    /\ pearsonOut # <<>>
    /\ px = <<2, 2, 2>>
    /\ py = <<0, 1, 3>>
    /\ pearsonOut[1] = DblZero

\* C13: for arrays x and y of equal length, pearson_correlation(x, y) equals
\* pearson_correlation(y, x).
C13_Symmetry ==
    (pearsonOut # <<>> /\ Len(px) = Len(py)) =>
        pearsonOut[1] = pearson_correlation(Doubles(py), Doubles(px), Len(py))

\* two different arrays with a correlation other than 0
C13_Witness ==
    /\ pearsonOut # <<>>
    /\ px = <<0, 1, 3>>
    /\ py = <<1, 0, 2>>
    /\ pearsonOut[1].sign = 1
    /\ pearsonOut[1] # DblOne

\* y = a * x + b for some a > 0, x taking at least two values
PositiveLinear(x, y) ==
    \E i, j \in 1..Len(x) :
        /\ x[i] < x[j]
        /\ y[i] < y[j]
        /\ \A k \in 1..Len(x) :
              (y[k] - y[i]) * (x[j] - x[i]) = (y[j] - y[i]) * (x[k] - x[i])

\* C14: when x has nonzero variance and y is a positive linear function of x,
\* pearson_correlation(x, y) is 1: the covariance sum is positive and its
\* square equals the product of the two sums of squared deviations.  x against
\* itself and [100,120,140,160] against [10,12,14,16] are such pairs.
C14_PerfectCorrelation ==
    (pearsonOut # <<>> /\ Len(px) = Len(py) /\ PositiveLinear(px, py)) =>
        /\ pearsonOut[1] = DblOne
        /\ pearsonOut[1].sign = 1
        /\ pearsonOut[1].square = RatOne

C14_Witness ==
    /\ pearsonOut # <<>>
    /\ px = LinearX
    /\ py = LinearY
    /\ pearsonOut[1] = DblOne

\* the scan rates of the list given to analyze_correlation, in list order
AnalyzedRates == [i \in 1..aCount |-> aHeap[i].slabs_scanned_per_sec]

\* C15: the coefficient of variation analyze_correlation returns is
\* stddev/mean when the mean is not 0 (its sign that of the mean, its square
\* times the squared mean the variance), exactly 0 and finite when the mean
\* is 0, and 0 whenever all the values are identical.
C15_CoefficientOfVariation ==
    (analysis # <<>> /\ analysis[1].allocated) =>
        LET n        == aCount
            rates    == AnalyzedRates
            cv       == analysis[1].result.coefficient_var
            sum      == SumOver(rates, n)
            squares  == SumOver([i \in 1..n |-> RatMul(rates[i], rates[i])], n)
            mean     == IF n = 0 THEN RatZero ELSE RatQuot(sum, Rat(n, 1))
            variance == IF n = 0 THEN RatZero
                        ELSE RatDiff(RatQuot(squares, Rat(n, 1)), RatMul(mean, mean))
        IN  /\ Finite(cv)
            /\ mean # RatZero =>
                  /\ RatMul(cv.square, RatMul(mean, mean)) = variance
                  /\ cv.sign = Sgn(variance[1]) * Sgn(mean[1])
            /\ mean = RatZero => cv = DblZero
            /\ Constant(rates) => cv = DblZero

\* rates 1/2 and 2: mean 5/4, variance 9/16, coefficient of variation 3/5
C15_Witness ==
    /\ analysis # <<>>
    /\ analysis[1].allocated
    /\ AnalyzedRates = <<Rat(1, 2), Rat(2, 1)>>
    /\ analysis[1].result.mean_pressure = Rat(5, 4)
    /\ analysis[1].result.coefficient_var = Dbl(1, Rat(9, 25))

\* the index of a snapshot with the given order 2 and order 3 counts
IndexOf(order2, order3) ==
    calculate_fragmentation_index(
        [calloc_snapshot EXCEPT !.order2_free_pages = order2,
                                !.order3_free_pages = order3])

\* C16: the fragmentation index is exactly 1 when the order 2 and order 3
\* counts total 0, and lies in [0, 1] for every pair of counts.
C16_FragmentationRange ==
    fragOut # <<>> =>
        /\ fragIn[1] + fragIn[2] = 0 => fragOut[1] = RatOne
        /\ RatLeq(RatZero, fragOut[1])
        /\ RatLeq(fragOut[1], RatOne)

\* C17: when the counts total more than 0 the index equals
\* 1 - (2*order2 + 3*order3) / (3*(order2 + order3)); all mass at order 3
\* gives 0, all mass at order 2 gives 1/3, and moving pages from order 2 to
\* order 3 never increases the index.
C17_FragmentationFormula ==
    (fragOut # <<>> /\ fragIn[1] + fragIn[2] > 0) =>
        LET order2 == fragIn[1]
            order3 == fragIn[2]
        IN  /\ RatEq(fragOut[1],
                     Rat(3 * (order2 + order3) - (2 * order2 + 3 * order3),
                         3 * (order2 + order3)))
            /\ order2 = 0 => RatEq(fragOut[1], RatZero)
            /\ order3 = 0 => RatEq(fragOut[1], Rat(1, 3))
            /\ \A moved \in 1..order2 :
                  order3 + moved < WordMod =>
                      RatLeq(IndexOf(order2 - moved, order3 + moved), fragOut[1])

----------------------------------------------------------------------------
(* collection_loop: termination by signal, allocation failure, the series *)

\* the value a metric contributes when it was obtained, 0 when it was not
ObtainedOrZero(obtained) == IF obtained = <<>> THEN 0 ELSE obtained[1]

C19_FailsClosed ==
    alloc_failed => (reports = <<>> /\ csv = <<>>)

\* C20: the arrays drawn from the list all have the list's count as length;
\* position i holds the values of the i-th snapshot appended, and 0 for each
\* metric the collectors did not obtain for it.
C20_AlignedSeries ==
    pcLoop # "done" =>
        LET metaspace == jvm_metaspace(heap, head, count)
            slabs     == kernel_slabs(heap, head, count)
            rates     == slab_scan_rates(heap, head, count)
        IN  /\ count = Len(collected)
            /\ DOMAIN metaspace = 1..count
            /\ DOMAIN slabs = 1..count
            /\ DOMAIN rates = 1..count
            /\ \A i \in 1..count :
                  /\ metaspace[i] =
                        Rat(ObtainedOrZero(collected[i].metaspace_used_kb), 1)
                  /\ slabs[i] =
                        Rat(ObtainedOrZero(collected[i].kmalloc_1k_active)
                              + ObtainedOrZero(collected[i].kmalloc_4k_active), 1)

\* three snapshots, jcmd failing for the second and /proc/slabinfo for the third
C20_Witness ==
    /\ count = 3
    /\ pcLoop = "sleep"
    /\ collected[1].metaspace_used_kb = <<5>>
    /\ collected[2].metaspace_used_kb = <<>>
    /\ collected[3].kmalloc_1k_active = <<>>
    /\ collected[3].metaspace_used_kb = <<7>>
    /\ jvm_metaspace(heap, head, count) = <<Rat(5, 1), Rat(0, 1), Rat(7, 1)>>
    /\ kernel_slabs(heap, head, count) = <<Rat(4, 1), Rat(4, 1), Rat(0, 1)>>

----------------------------------------------------------------------------
(* Claims about the sampling cycle *)

\* the observations i - n .. i of the series rise strictly, n times in a row
RisesInto(i, n) ==
    /\ i - n >= 1
    /\ \A k \in 1..n : obs[i - k + 1] > obs[i - k]

\* no observation up to i is above the one before it
NeverRisesUpTo(i) == \A j \in 2..i : obs[j] <= obs[j - 1]

\* C22: when the raw value rose strictly in each of the MONO_LIMIT most recent
\* cycles up to cycle i, however little, the tier of cycle i is WARN or
\* CRITICAL; and while the value has never risen from one cycle to the next,
\* no cycle's tier is WARN.
C22_PersistentGrowthWarns ==
    \A i \in 1..Len(obs) :
        /\ RisesInto(i, MONO_LIMIT) => tiers[i] \in {"WARN", "CRITICAL"}
        /\ NeverRisesUpTo(i) => tiers[i] # "WARN"

\* three rises in a row, the last of exactly 20 percent: WARN, not CRITICAL
C22_Witness ==
    /\ obs = <<0, 80, 100, 120>>
    /\ tiers[4] = "WARN"

\* the position of a call within a cycle: ingest 1-2, trend update 3-5,
\* correlate 6, classify and report 7-8, the sleep between cycles 9
Phase(pc) ==
    CASE pc = "parse_vmstat"        -> 1
      [] pc = "parse_slabinfo"      -> 2
      [] pc = "update_ema"          -> 3
      [] pc = "compute_growth"      -> 4
      [] pc = "update_monotonic"    -> 5
      [] pc = "correlate"           -> 6
      [] pc = "show_topN"           -> 7
      [] pc = "show_vmstat_summary" -> 8
      [] pc = "sleep"               -> 9
      [] OTHER                      -> 0

\* C23: inside the loop every step moves to the next call of the cycle, in
\* the order parse, trend update, correlate, show, and only the sleep that
\* follows the last call starts the next cycle, so a cycle is completed
\* before the next begins and one sleep lies between two cycles; before the
\* loop init_trend_tracking runs once, after the initial parse_slabinfo and
\* before the first sleep, and no cycle starts before it has run.
C23_CycleOrder ==
    [][ /\ inLoop /\ pcMain # "sleep" =>
              /\ Phase(pcMain) \in 1..8
              /\ Phase(pcMain') = Phase(pcMain) + 1
              /\ cycle' = cycle
              /\ cycle >= 1
        /\ pcMain = "sleep" =>
              /\ inLoop
              /\ pcMain' = "parse_vmstat"
              /\ cycle' = cycle + 1
        /\ ~inLoop =>
              /\ cycle = 0 /\ cycle' = 0
              /\ <<pcMain, pcMain'>> \in
                    { <<"init_vmstat_list", "init_slab_list">>,
                      <<"init_slab_list", "parse_vmstat">>,
                      <<"parse_vmstat", "parse_slabinfo">>,
                      <<"parse_slabinfo", "init_trend_tracking">>,
                      <<"init_trend_tracking", "sleep">> }
              /\ inLoop' = (pcMain = "init_trend_tracking")
        /\ inLoop => inLoop'
      ]_vars

\* the second cycle has run to its end
C23_Witness ==
    /\ cycle = 2
    /\ pcMain = "sleep"
    /\ summary # <<>>

\* the fields of a metric's state the cycle's baseline consists of
Baseline(s) == <<s.set, s.previous_value>>

\* C24: inside the loop the ingest and the trend updates leave previous_value
\* of every metric as it was before the cycle until the last of the three
\* updates; ema_value, growth_percent and streak of a metric of the snapshot
\* each change in one step only and are computed from that unchanged
\* previous_value and the cycle's raw value; the last update sets
\* previous_value to the raw value, and it stays so for the rest of the cycle.
C24_SameBaseline ==
    [][ inLoop =>
          /\ pcMain' # "correlate" =>
                \A n \in Names : Baseline(trend'[n]) = Baseline(trend[n])
          /\ pcMain # "update_ema" =>
                \A n \in Names : trend'[n].ema_value = trend[n].ema_value
          /\ pcMain # "compute_growth" =>
                \A n \in Names : trend'[n].growth_percent = trend[n].growth_percent
          /\ pcMain # "update_monotonic" =>
                \A n \in Names : trend'[n].streak = trend[n].streak
          /\ pcMain = "update_ema" =>
                \A n \in DOMAIN observed :
                    trend'[n].ema_value =
                        IF trend[n].set
                        THEN ema_formula(EMA_ALPHA, trend[n].ema_value, observed[n])
                        ELSE Rat(observed[n], 1)
          /\ pcMain = "compute_growth" =>
                \A n \in DOMAIN observed :
                    trend[n].set /\ trend[n].previous_value # 0 =>
                        trend'[n].growth_percent =
                            FiniteGrowth(growth_formula(trend[n].previous_value,
                                                        observed[n]))
          /\ pcMain = "update_monotonic" =>
                \A n \in DOMAIN observed :
                    trend'[n].streak =
                        IF trend[n].set /\ observed[n] > trend[n].previous_value
                        THEN trend[n].streak + 1 ELSE 0
          /\ Phase(pcMain') \in 6..9 =>
                \A n \in DOMAIN observed' :
                    trend'[n].previous_value = observed'[n]
      ]_vars

\* a cycle in which kmalloc-1k went from 100 to 120: growth 20, streak 1
C24_Witness ==
    /\ inLoop
    /\ pcMain = "correlate"
    /\ "kmalloc-1k" \in DOMAIN observed
    /\ observed["kmalloc-1k"] = 120
    /\ trend["kmalloc-1k"].previous_value = 120
    /\ trend["kmalloc-1k"].streak = 1
    /\ trend["kmalloc-1k"].growth_percent = FiniteGrowth(Rat(20, 1))

----------------------------------------------------------------------------
(* Claims about the collection loop and its list *)

\* the free-page counts of a snapshot, 0 for what /proc/buddyinfo did not give
FreePagesOf(reading) ==
    IF reading.free_pages = <<>> THEN <<0, 0>> ELSE reading.free_pages

\* C25: every exported file holds one row per snapshot collected, in the order
\* of collection, and the fragmentation index of each row, the first
\* included, is the index of that snapshot's own order 2 and order 3 counts
\* (1 when both are 0).
C25_ExportedIndex ==
    \A f \in 1..Len(csv) :
        /\ Len(csv[f]) = Len(collected)
        /\ \A i \in 1..Len(csv[f]) :
              LET pages == FreePagesOf(collected[i])
              IN  RatEq(csv[f][i][6], IndexOf(pages[1], pages[2]))

\* C26: once running is 0 it stays 0 and the loop body is not entered again:
\* an append after that can only be the end of the cycle that was under way,
\* after which the loop test leads to the report; generate_report, export_csv
\* and cleanup_list follow each other in that order, each adding one report,
\* one file and one release of the list, and at the end there is exactly one
\* of each.
C26_SignalStopsSampling ==
    [][ /\ running = 0 => running' = 0
        /\ (running = 0 /\ pcLoop # "body") => pcLoop' # "body"
        /\ count' > count =>
              /\ pcLoop = "body" /\ pcLoop' = "sleep"
              /\ count' = count + 1
        /\ pcLoop \in {"sleep", "while"} => count' = count
        /\ (running = 0 /\ pcLoop = "while" /\ pcLoop' # pcLoop) => pcLoop' = "report"
        /\ pcLoop' # pcLoop =>
              /\ pcLoop = "report" => pcLoop' = "export"
              /\ pcLoop = "export" => pcLoop' = "cleanup"
              /\ pcLoop = "cleanup" => pcLoop' = "done"
              /\ pcLoop # "done"
        /\ Len(reports') =
              Len(reports) + (IF pcLoop = "report" /\ pcLoop' = "export" THEN 1 ELSE 0)
        /\ Len(csv') =
              Len(csv) + (IF pcLoop = "export" /\ pcLoop' = "cleanup" THEN 1 ELSE 0)
        /\ freed' # freed => (pcLoop = "cleanup" /\ pcLoop' = "done")
        /\ pcLoop' = "done" => (Len(reports') = 1 /\ Len(csv') = 1)
      ]_vars

\* the signal came during the second cycle; the run ended with both snapshots
C26_Witness ==
    /\ running = 0
    /\ pcLoop = "done"
    /\ ~alloc_failed
    /\ Len(collected) = 2
    /\ reports[1].samples = 2
    /\ Len(csv[1]) = 2

NoDuplicates(q) == \A i, j \in 1..Len(q) : q[i] = q[j] => i = j

WellFormedList ==
    /\ count = Len(Retained)
    /\ NoDuplicates(Retained)
    /\ (head = 0) = (tail = 0)
    /\ (tail = 0) = (count = 0)
    /\ count > 0 => (Retained[count] = tail /\ heap[tail].next = 0)

\* the fields of a node other than its link
Payload(snap) == [snap EXCEPT !.next = 0]

\* C27: the list is well formed in every state: count is the number of nodes
\* met from head by following next, tail is the last of them with a NULL
\* next, and head, tail and count are empty together.  A step that changes
\* count before the cleanup is an append: count grows by 1, the nodes already
\* in the list stay in their order with their contents, and the new node is
\* last.  After cleanup_list head and tail are NULL, count is 0, and free()
\* has been given every node ever allocated exactly once.
C27_ListWellFormed ==
    /\ []WellFormedList
    /\ [](pcLoop # "done" => freed = <<>>)
    /\ [](pcLoop = "done" =>
            /\ head = 0 /\ tail = 0 /\ count = 0
            /\ NoDuplicates(freed)
            /\ {freed[i] : i \in 1..Len(freed)} = 1..Len(collected))
    /\ [][ (count' # count /\ pcLoop # "cleanup") =>
              /\ count' = count + 1
              /\ Retained' = Append(Retained, tail')
              /\ \A i \in 1..Len(Retained) :
                    Payload(heap'[Retained[i]]) = Payload(heap[Retained[i]])
         ]_vars

\* three snapshots were collected and released
C27_Witness ==
    /\ pcLoop = "done"
    /\ Len(collected) = 3
    /\ Len(freed) = 3

\* a - b in uintN_t arithmetic
WrappedDifference(a, b) == (a - b) % WordMod

\* C29: the first snapshot has both rates 0.  For a later snapshot, with dt
\* the unsigned difference of its timestamp and its predecessor's: when
\* dt > 0, slabs_scanned_per_sec is the wrapped difference of slabs_scanned
\* over dt and allocation_rate_kb_per_sec is four times the wrapped difference
\* of pgalloc_dma, the product wrapped again, over dt; when dt = 0 both rates
\* are 0.  No rate has a zero divisor.
C29_Rates ==
    \A i \in 1..Len(Retained) :
        LET s == heap[Retained[i]]
        IN  /\ s.slabs_scanned_per_sec[2] > 0
            /\ s.allocation_rate_kb_per_sec[2] > 0
            /\ i = 1 =>
                  /\ s.slabs_scanned_per_sec = RatZero
                  /\ s.allocation_rate_kb_per_sec = RatZero
            /\ i > 1 =>
                  LET p  == heap[Retained[i - 1]]
                      dt == WrappedDifference(s.timestamp_sec, p.timestamp_sec)
                      scanned == WrappedDifference(s.slabs_scanned, p.slabs_scanned)
                      pages   == WrappedDifference(s.pgalloc_dma, p.pgalloc_dma)
                  IN  /\ dt > 0 =>
                            /\ s.slabs_scanned_per_sec[1] * dt =
                                  scanned * s.slabs_scanned_per_sec[2]
                            /\ s.allocation_rate_kb_per_sec[1] * dt =
                                  ((pages * 4) % WordMod)
                                      * s.allocation_rate_kb_per_sec[2]
                      /\ dt = 0 =>
                            /\ s.slabs_scanned_per_sec = RatZero
                            /\ s.allocation_rate_kb_per_sec = RatZero

\* a second snapshot one second after the first with pgalloc_dma up by 5, and
\* a third with the timestamp of the second
C29_Witness ==
    /\ Len(Retained) = 3
    /\ heap[Retained[2]].timestamp_sec = heap[Retained[1]].timestamp_sec + 1
    /\ WrappedDifference(heap[Retained[2]].pgalloc_dma,
                         heap[Retained[1]].pgalloc_dma) = 5
    /\ heap[Retained[2]].allocation_rate_kb_per_sec # RatZero
    /\ heap[Retained[3]].timestamp_sec = heap[Retained[2]].timestamp_sec
    /\ heap[Retained[3]].pgalloc_dma # heap[Retained[2]].pgalloc_dma

\* C29 as stated: every per-second rate of a later snapshot with dt > 0 is the
\* wrapped difference of its counter over dt.
C29_RatesAreDifferences ==
    \A i \in 2..Len(Retained) :
        LET s  == heap[Retained[i]]
            p  == heap[Retained[i - 1]]
            dt == WrappedDifference(s.timestamp_sec, p.timestamp_sec)
        IN  dt > 0 =>
              /\ s.slabs_scanned_per_sec[1] * dt =
                    WrappedDifference(s.slabs_scanned, p.slabs_scanned)
                        * s.slabs_scanned_per_sec[2]
              /\ s.allocation_rate_kb_per_sec[1] * dt =
                    WrappedDifference(s.pgalloc_dma, p.pgalloc_dma)
                        * s.allocation_rate_kb_per_sec[2]

----------------------------------------------------------------------------
(* Claims about the vmstat list *)

PrevOf(mem, p) == IF p = HEADP THEN mem.head.prev ELSE mem.nodes[p].prev

\* the lines parsed so far that carry the name
LinesOf(name) == { k \in 1..Len(supplied) : supplied[k][1] = name }

\* the value on the last of them
LatestValue(name) ==
    supplied[CHOOSE k \in LinesOf(name) : \A j \in LinesOf(name) : j <= k][2]

\* the head and the nodes
ListPositions(mem) == {HEADP} \cup DOMAIN mem.nodes

\* the positions met from the head by following next until the head again
RECURSIVE AroundFrom(_, _, _)
AroundFrom(mem, pos, fuel) ==
    IF pos = HEADP \/ pos = NULLP \/ fuel = 0 THEN {}
    ELSE {pos} \cup AroundFrom(mem, NextOf(mem, pos), fuel - 1)

VmstatIsMap ==
    vmstat_list # EmptyMemory =>
        /\ \A name \in LineNames :
              get_vmstat(vmstat_list, name) =
                  IF LinesOf(name) = {} THEN 0
                  ELSE LatestValue(name) % UIntMod
        /\ \A i, j \in DOMAIN vmstat_list.nodes :
              vmstat_list.nodes[i].name = vmstat_list.nodes[j].name => i = j
        /\ { vmstat_list.nodes[i].name : i \in DOMAIN vmstat_list.nodes } =
              { supplied[k][1] : k \in 1..Len(supplied) }
        /\ \A p \in ListPositions(vmstat_list) :
              /\ NextOf(vmstat_list, p) \in ListPositions(vmstat_list)
              /\ PrevOf(vmstat_list, p) \in ListPositions(vmstat_list)
              /\ PrevOf(vmstat_list, NextOf(vmstat_list, p)) = p
              /\ NextOf(vmstat_list, PrevOf(vmstat_list, p)) = p
        /\ AroundFrom(vmstat_list, vmstat_list.head.next,
                      Len(vmstat_list.nodes)) = DOMAIN vmstat_list.nodes

----------------------------------------------------------------------------
(* Claims about slablist.h *)

SlabCallsOf(fn) == { i \in DOMAIN slabCalls : slabCalls[i].fn = fn }

\* the list node of a snapshot block
NodeOfSnapshot(mem, slabs) == mem[slabs].l

\* the nodes met from h by following next until h comes round again
RECURSIVE RingFrom(_, _, _, _)
RingFrom(mem, h, at, fuel) ==
    IF at = 0 \/ at \notin DOMAIN mem \/ fuel = 0 THEN {}
    ELSE {at} \cup (IF mem[at].next = h THEN {}
                    ELSE RingFrom(mem, h, mem[at].next, fuel - 1))

Ring(mem, h) == RingFrom(mem, h, h, Len(mem))

WellLinked(mem, nodes) ==
    \A n \in nodes :
        /\ mem[n].next \in DOMAIN mem
        /\ mem[n].prev \in DOMAIN mem
        /\ mem[mem[n].next].prev = n
        /\ mem[mem[n].prev].next = n

\* C21: every call of init_slab_list so far dereferenced no null or
\* unallocated pointer; when one of its allocations failed it returned NULL
\* and left none of the blocks it allocated live; otherwise it returned a
\* snapshot tagged SLABINFO whose list node has itself as prev and as next.
C21_InitSlabList ==
    \A i \in SlabCallsOf("init_slab_list") :
        LET call == slabCalls[i]
        IN  /\ ~call.fault
            /\ (~call.malloc1 \/ ~call.malloc2) =>
                   /\ call.ret = 0
                   /\ \A b \in call.blocks : ~slabMem[b].live
            /\ (call.malloc1 /\ call.malloc2) =>
                   /\ call.ret \in DOMAIN slabMem
                   /\ slabMem[call.ret].enumtype = "SLABINFO"
                   /\ LET node == NodeOfSnapshot(slabMem, call.ret)
                      IN  /\ node \in DOMAIN slabMem
                          /\ slabMem[node].next = node
                          /\ slabMem[node].prev = node

\* the blocks a chain of pointers leads to from the slab list's global head:
\* its nodes, the snapshots that embed them, and their slabinfo
ReachableFromHead(mem, h) ==
    LET ring == Ring(mem, h)
    IN  ring \cup { mem[n].svar : n \in { m \in ring : mem[m].kind = "snapshot" } }

\* the list nodes the calls of init_slab_list_noptr created
NoptrNodes ==
    { NodeOfSnapshot(slabMem, CHOOSE b \in slabCalls[i].blocks :
                                  slabMem[b].kind = "snapshot") :
        i \in { j \in SlabCallsOf("init_slab_list_noptr") :
                    slabCalls[j].malloc1 /\ slabCalls[j].malloc2 } }

\* C30: after any number of init_slab_list_noptr calls from all heads NULL,
\* no call dereferenced a NULL head, the list from headslabinfo holds every
\* node created so far with n.next.prev = n and n.prev.next = n for each, and
\* every block a call left allocated can be reached from that head.
C30_SlabListWellFormed ==
    /\ \A i \in SlabCallsOf("init_slab_list_noptr") : ~slabCalls[i].fault
    /\ NoptrNodes \subseteq Ring(slabMem, headslabinfo)
    /\ WellLinked(slabMem, Ring(slabMem, headslabinfo))
    /\ \A i \in SlabCallsOf("init_slab_list_noptr") :
         \A b \in slabCalls[i].blocks :
            slabMem[b].live =>
                b \in ReachableFromHead(slabMem, headslabinfo)

====
